---- MODULE Spec2Model ----
(***************************************************************************)
(* TinyFrame (src/core.py): route registration, request dispatch, result   *)
(* normalisation, sessions and response emission of the WSGI application.  *)
(*                                                                         *)
(* Text that the code inspects character by character (route strings,      *)
(* request paths) is a sequence of one-character strings.  Text the code   *)
(* only stores and copies (header values, locations, session identifiers,  *)
(* bodies) is a TLA+ string.                                               *)
(***************************************************************************)
EXTENDS Integers, Sequences, FiniteSets, TLC

VARIABLES routes, named_routes, sessions, serving, last, wsgi_request, threads

vars == <<routes, named_routes, sessions, serving, last, wsgi_request, threads>>

(***************************************************************************)
(* Bounds of the model.                                                    *)
(***************************************************************************)
MaxRoutes == 2
MaxSessions == 2
MaxVisits == 2

(***************************************************************************)
(* Python values.                                                          *)
(***************************************************************************)
PyNone == [t |-> "None", v |-> ""]
Str(s) == [t |-> "str", v |-> s]
Bytes(s) == [t |-> "bytes", v |-> s]

\* status slot of the triple returned by _handle_request when it holds None
NoStatus == 0

\* an empty dict
EmptyDict == [k \in {} |-> 0]

Max(S) == CHOOSE x \in S : \A y \in S : y <= x

\* F applied to the value of x, with x evaluated once
With(x, F(_)) == CHOOSE r \in {F(v) : v \in {x}} : TRUE

(***************************************************************************)
(* compile_route: '<(path:)?(\w+)>' is replaced by a named group, every    *)
(* other character stays a literal of the regular expression.              *)
(***************************************************************************)
WordChars ==
  {"a", "b", "c", "d", "e", "f", "g", "h", "i", "j", "k", "l", "m", "n", "o",
   "p", "q", "r", "s", "t", "u", "v", "w", "x", "y", "z",
   "0", "1", "2", "3", "4", "5", "6", "7", "8", "9", "_"}

Lit(c) == [t |-> "lit", c |-> <<c>>]
Group(kind, name) == [t |-> kind, c |-> name]

\* length of the longest run of word characters of s starting at i
RECURSIVE WordRun(_, _)
WordRun(s, i) ==
  IF i <= Len(s) /\ s[i] \in WordChars THEN 1 + WordRun(s, i + 1) ELSE 0

HasPathPrefix(s, i) ==
  /\ i + 4 <= Len(s)
  /\ SubSeq(s, i, i + 4) = <<"p", "a", "t", "h", ":">>

\* the placeholder that starts at s[i] = "<", as [len, tok], len = 0 if none
PlaceholderAt(s, i) ==
  LET w1 == WordRun(s, i + 6)
      w2 == WordRun(s, i + 1)
  IN  IF /\ HasPathPrefix(s, i + 1)
         /\ w1 >= 1
         /\ i + 6 + w1 <= Len(s)
         /\ s[i + 6 + w1] = ">"
      THEN [len |-> 7 + w1, tok |-> Group("path", SubSeq(s, i + 6, i + 5 + w1))]
      ELSE IF /\ w2 >= 1
              /\ i + 1 + w2 <= Len(s)
              /\ s[i + 1 + w2] = ">"
           THEN [len |-> 2 + w2, tok |-> Group("seg", SubSeq(s, i + 1, i + w2))]
           ELSE [len |-> 0, tok |-> Lit("<")]

RECURSIVE Tokens(_, _)
Tokens(s, i) ==
  IF i > Len(s) THEN << >>
  ELSE LET ph == IF s[i] = "<" THEN PlaceholderAt(s, i)
                 ELSE [len |-> 0, tok |-> Lit(s[i])]
       IN  IF ph.len > 0 THEN <<ph.tok>> \o Tokens(s, i + ph.len)
           ELSE <<Lit(s[i])>> \o Tokens(s, i + 1)

GroupNames(toks) == {toks[i].c : i \in {j \in 1..Len(toks) : toks[j].t # "lit"}}

NumGroups(toks) == Cardinality({j \in 1..Len(toks) : toks[j].t # "lit"})

\* compile_route accepting a group name defined twice
compile_route_Unchecked(route_str) ==
  [err |-> FALSE, toks |-> Tokens(route_str, 1)]

\* re.compile raises on a group name defined twice
compile_route(route_str) ==
  LET toks == Tokens(route_str, 1)
  IN  [err |-> NumGroups(toks) # Cardinality(GroupNames(toks)), toks |-> toks]

(***************************************************************************)
(* pattern.match(path) of the anchored expression: greedy groups with      *)
(* backtracking; [^/]+ for a plain group, .+ for a path group.             *)
(***************************************************************************)
NoMatch == [ok |-> FALSE, groups |-> EmptyDict]

\* [^/] in place of [^/]+: a plain group of exactly one character
SegRun_OneChar(path, j) ==
  IF j <= Len(path) /\ path[j] # "/" THEN 1 ELSE 0

RECURSIVE SegRun(_, _)
SegRun(path, j) ==
  IF j <= Len(path) /\ path[j] # "/" THEN 1 + SegRun(path, j + 1) ELSE 0

\* .+ for every group: a plain group takes "/" as a path group does
RECURSIVE MatchFrom_AnyChar(_, _, _, _)
MatchFrom_AnyChar(toks, i, path, j) ==
  IF i > Len(toks) THEN [ok |-> j = Len(path) + 1, groups |-> EmptyDict]
  ELSE LET tk == toks[i] IN
    IF tk.t = "lit"
    THEN IF j <= Len(path) /\ <<path[j]>> = tk.c
         THEN MatchFrom_AnyChar(toks, i + 1, path, j + 1)
         ELSE NoMatch
    ELSE LET maxLen == Len(path) - j + 1
             lens == {k \in 1..maxLen : MatchFrom_AnyChar(toks, i + 1, path, j + k).ok}
         IN  IF lens = {} THEN NoMatch
             ELSE LET k == Max(lens)
                      r == MatchFrom_AnyChar(toks, i + 1, path, j + k)
                  IN  [ok |-> TRUE,
                       groups |-> (tk.c :> SubSeq(path, j, j + k - 1)) @@ r.groups]

RECURSIVE MatchFrom(_, _, _, _)
MatchFrom(toks, i, path, j) ==
  IF i > Len(toks) THEN [ok |-> j = Len(path) + 1, groups |-> EmptyDict]
  ELSE LET tk == toks[i] IN
    IF tk.t = "lit"
    THEN IF j <= Len(path) /\ <<path[j]>> = tk.c
         THEN MatchFrom(toks, i + 1, path, j + 1)
         ELSE NoMatch
    ELSE LET maxLen == IF tk.t = "path" THEN Len(path) - j + 1 ELSE SegRun(path, j)
             lens == {k \in 1..maxLen : MatchFrom(toks, i + 1, path, j + k).ok}
         IN  IF lens = {} THEN NoMatch
             ELSE LET k == Max(lens)
                      r == MatchFrom(toks, i + 1, path, j + k)
                  IN  [ok |-> TRUE,
                       groups |-> (tk.c :> SubSeq(path, j, j + k - 1)) @@ r.groups]

Match(compiled, path) == MatchFrom(compiled.toks, 1, path, 1)

(***************************************************************************)
(* WSGIResponse: _headers and _cookies are insertion-ordered dicts, kept   *)
(* as sequences of entries; assigning to an existing key keeps its place.  *)
(***************************************************************************)
NewResponse == [headers |-> << >>, cookies |-> << >>, status_code |-> 200]

HasKey(d, k) == \E i \in 1..Len(d) : d[i].key = k

DictSet(d, entry) ==
  IF HasKey(d, entry.key)
  THEN [i \in 1..Len(d) |-> IF d[i].key = entry.key THEN entry ELSE d[i]]
  ELSE Append(d, entry)

set_header(res, key, value) ==
  [res EXCEPT !.headers = DictSet(@, [key |-> key, value |-> value])]

set_cookie(res, key, value, path) ==
  [res EXCEPT !.cookies = DictSet(@, [key |-> key, value |-> value, path |-> path])]

\* as WSGIResponse_redirect, without the Location header
WSGIResponse_redirect_NoLocation(res, location, status_code) ==
  [res EXCEPT !.status_code = status_code]

WSGIResponse_redirect(res, location, status_code) ==
  set_header([res EXCEPT !.status_code = status_code], "Location", location)

\* TinyFrame.redirect: a new response object, not the per-request one
redirect(location, status_code) ==
  WSGIResponse_redirect(NewResponse, location, status_code)

\* Morsel.OutputString() of a cookie that has a value and a path
OutputString(morsel) ==
  morsel.key \o "=" \o morsel.value \o "; Path=" \o morsel.path

_http_status_message(status_code) ==
  CASE status_code = 100 -> "Continue"
    [] status_code = 101 -> "Switching Protocols"
    [] status_code = 200 -> "OK"
    [] status_code = 201 -> "Created"
    [] status_code = 202 -> "Accepted"
    [] status_code = 203 -> "Non-Authoritative Information"
    [] status_code = 204 -> "No Content"
    [] status_code = 205 -> "Reset Content"
    [] status_code = 206 -> "Partial Content"
    [] status_code = 300 -> "Multiple Choices"
    [] status_code = 301 -> "Moved Permanently"
    [] status_code = 302 -> "Found"
    [] status_code = 303 -> "See Other"
    [] status_code = 304 -> "Not Modified"
    [] status_code = 305 -> "Use Proxy"
    [] status_code = 307 -> "Temporary Redirect"
    [] status_code = 400 -> "Bad Request"
    [] status_code = 401 -> "Unauthorized"
    [] status_code = 402 -> "Payment Required"
    [] status_code = 403 -> "Forbidden"
    [] status_code = 404 -> "Not Found"
    [] status_code = 405 -> "Method Not Allowed"
    [] status_code = 406 -> "Not Acceptable"
    [] status_code = 407 -> "Proxy Authentication Required"
    [] status_code = 408 -> "Request Timeout"
    [] status_code = 409 -> "Conflict"
    [] status_code = 410 -> "Gone"
    [] status_code = 411 -> "Length Required"
    [] status_code = 412 -> "Precondition Failed"
    [] status_code = 413 -> "Payload Too Large"
    [] status_code = 414 -> "URI Too Long"
    [] status_code = 415 -> "Unsupported Media Type"
    [] status_code = 416 -> "Range Not Satisfiable"
    [] status_code = 417 -> "Expectation Failed"
    [] status_code = 418 -> "I'm a teapot"
    [] status_code = 422 -> "Unprocessable Entity"
    [] status_code = 425 -> "Too Early"
    [] status_code = 426 -> "Upgrade Required"
    [] status_code = 428 -> "Precondition Required"
    [] status_code = 429 -> "Too Many Requests"
    [] status_code = 431 -> "Request Header Fields Too Large"
    [] status_code = 451 -> "Unavailable For Legal Reasons"
    [] status_code = 500 -> "Internal Server Error"
    [] status_code = 501 -> "Not Implemented"
    [] status_code = 502 -> "Bad Gateway"
    [] status_code = 503 -> "Service Unavailable"
    [] status_code = 504 -> "Gateway Timeout"
    [] status_code = 505 -> "HTTP Version Not Supported"
    [] status_code = 506 -> "Variant Also Negotiates"
    [] status_code = 507 -> "Insufficient Storage"
    [] status_code = 508 -> "Loop Detected"
    [] status_code = 510 -> "Not Extended"
    [] status_code = 511 -> "Network Authentication Required"
    [] OTHER -> "Unknown Status Code"

(***************************************************************************)
(* Request methods: the strings the model sends and registers, with        *)
(* str.upper() and str.lower() on them.                                    *)
(***************************************************************************)
upper(m) ==
  CASE m \in {"GET", "get", "Get"} -> "GET"
    [] m \in {"POST", "post", "Post"} -> "POST"
    [] m \in {"PUT", "put"} -> "PUT"
    [] OTHER -> m

lower(m) ==
  CASE m \in {"GET", "get", "Get"} -> "get"
    [] m \in {"POST", "post", "Post"} -> "post"
    [] m \in {"PUT", "put"} -> "put"
    [] OTHER -> m

\* WSGIRequest.__init__: cookie is the value of the session_id cookie of
\* HTTP_COOKIE, "" when the request carries none
NoCookie == ""

WSGIRequest(method, path, cookie) ==
  [method |-> method, path |-> path, cookie |-> cookie]

(***************************************************************************)
(* _get_session.  uuid stands for the value uuid.uuid4() returns.          *)
(***************************************************************************)
\* as _get_session, never looking the cookie up
_get_session_AlwaysNew(store, request, response, uuid) ==
  [sid |-> uuid, minted |-> TRUE,
   sessions |-> (uuid :> EmptyDict) @@ store,
   res |-> set_cookie(response, "session_id", uuid, "/")]

\* as _get_session, creating the session under the identifier of the client
_get_session_Adopting(store, request, response, uuid) ==
  LET session_id == request.cookie
  IN  IF session_id # NoCookie /\ session_id \in DOMAIN store
      THEN [sid |-> session_id, minted |-> FALSE, sessions |-> store,
            res |-> response]
      ELSE LET new_id == IF session_id # NoCookie THEN session_id ELSE uuid
           IN  [sid |-> new_id, minted |-> TRUE,
                sessions |-> (new_id :> EmptyDict) @@ store,
                res |-> set_cookie(response, "session_id", new_id, "/")]

_get_session(store, request, response, uuid) ==
  LET session_id == request.cookie
  IN  IF session_id # NoCookie /\ session_id \in DOMAIN store
      THEN [sid |-> session_id, minted |-> FALSE, sessions |-> store,
            res |-> response]
      ELSE [sid |-> uuid, minted |-> TRUE,
            sessions |-> (uuid :> EmptyDict) @@ store,
            res |-> set_cookie(response, "session_id", uuid, "/")]

DictGet(d, k, default) == IF k \in DOMAIN d THEN d[k] ELSE default

(***************************************************************************)
(* Views.  A function view runs a handler program beh: what it does to the *)
(* per-request response and to request.session, and what it returns.  A    *)
(* class view is a ClassView subclass registered as the view itself, a     *)
(* bound view is the dispatch_request method of an instance of one; ops    *)
(* maps the operations the class defines to the text they return.          *)
(***************************************************************************)
FuncView(name) == [kind |-> "func", name |-> name, ops |-> EmptyDict]
ClassViewClass(name, ops) == [kind |-> "class", name |-> name, ops |-> ops]
BoundDispatch(name, ops) == [kind |-> "bound", name |-> name, ops |-> ops]

\* body of a handler that renders the visit counter of its session (app4)
VisitsBody == [t |-> "visits", v |-> ""]

Raw(body) == [shape |-> "raw", body |-> body, status |-> NoStatus, resp |-> NewResponse]
Pair(body, status) == [shape |-> "pair", body |-> body, status |-> status, resp |-> NewResponse]
Resp(resp) == [shape |-> "resp", body |-> PyNone, status |-> NoStatus, resp |-> resp]

RunFunc(beh, request, response, session) ==
  LET r1 == IF beh.hdr THEN set_header(response, "X-A", "1") ELSE response
      r2 == IF beh.ck THEN set_cookie(r1, "c", "v", "/") ELSE r1
      r3 == IF beh.setst # NoStatus THEN [r2 EXCEPT !.status_code = beh.setst] ELSE r2
      s1 == IF beh.inc
            THEN ("visits" :> (DictGet(session, "visits", 0) + 1)) @@ session
            ELSE session
      body == IF beh.body = VisitsBody
              THEN Str("visits=" \o ToString(DictGet(s1, "visits", 0)))
              ELSE beh.body
  IN  [raised |-> FALSE, response |-> r3, session |-> s1,
       result |-> CASE beh.shape = "raw" -> Raw(body)
                    [] beh.shape = "pair" -> Pair(body, beh.status)
                    [] OTHER -> Resp(redirect(beh.loc, beh.status))]

\* ClassView.dispatch_request
dispatch_request(view, request, response, session) ==
  LET method == lower(request.method)
  IN  [raised |-> FALSE, response |-> response, session |-> session,
       result |-> IF method \in DOMAIN view.ops
                  THEN Raw(Str(view.ops[method]))
                  ELSE Pair(Str("405 Method Not Allowed"), 405)]

\* view(request, response, **kwargs).  Calling a ClassView subclass with
\* arguments raises TypeError: the class defines no __init__.
CallView(view, beh, request, response, session) ==
  CASE view.kind = "func" -> RunFunc(beh, request, response, session)
    [] view.kind = "bound" -> dispatch_request(view, request, response, session)
    [] OTHER -> [raised |-> TRUE, response |-> response, session |-> session,
                 result |-> Raw(PyNone)]

(***************************************************************************)
(* _handle_request: the scan of the route list from entry i on.            *)
(***************************************************************************)
MethodAllowed(request, methods) ==
  upper(request.method) \in {upper(methods[k]) : k \in 1..Len(methods)}

Triple(body, status, res, response, session, calls, raised) ==
  [body |-> body, status |-> status, res |-> res, response |-> response,
   session |-> session, calls |-> calls, raised |-> raised]

\* normalization that takes the status of the per-request response for a
\* (body, status) pair too
Normalize_PairStatusDropped(i, kwargs, c) ==
  LET calls == <<[route |-> i, kwargs |-> kwargs]>>
      result == c.result
  IN  IF c.raised
      THEN Triple(PyNone, NoStatus, c.response, c.response, c.session, calls, TRUE)
      ELSE CASE result.shape = "resp" ->
                  Triple(Str(""), result.resp.status_code, result.resp,
                         c.response, c.session, calls, FALSE)
             [] OTHER ->
                  Triple(result.body, c.response.status_code, c.response,
                         c.response, c.session, calls, FALSE)

Normalize(i, kwargs, c) ==
  LET calls == <<[route |-> i, kwargs |-> kwargs]>>
      result == c.result
  IN  IF c.raised
      THEN Triple(PyNone, NoStatus, c.response, c.response, c.session, calls, TRUE)
      ELSE CASE result.shape = "resp" ->
                  Triple(Str(""), result.resp.status_code, result.resp,
                         c.response, c.session, calls, FALSE)
             [] result.shape = "pair" ->
                  Triple(result.body, result.status, c.response,
                         c.response, c.session, calls, FALSE)
             [] OTHER ->
                  Triple(result.body, c.response.status_code, c.response,
                         c.response, c.session, calls, FALSE)

\* as ScanRoutes, giving up at the first route that accepts the path
RECURSIVE ScanRoutes_FirstPathMatch(_, _, _, _, _, _, _)
ScanRoutes_FirstPathMatch(table, i, found_route, beh, request, response, session) ==
  IF i > Len(table)
  THEN Triple(PyNone, NoStatus, response, response, session, << >>, FALSE)
  ELSE With(Match(table[i].compiled, request.path), LAMBDA match :
         IF match.ok
         THEN IF MethodAllowed(request, table[i].methods)
              THEN With(CallView(table[i].view, beh, request, response, session),
                        LAMBDA c : Normalize(i, match.groups, c))
              ELSE Triple(Str("405 Method Not Allowed"), 405, response, response,
                          session, << >>, FALSE)
         ELSE ScanRoutes_FirstPathMatch(table, i + 1, found_route, beh, request,
                                        response, session))

RECURSIVE ScanRoutes(_, _, _, _, _, _, _)
ScanRoutes(table, i, found_route, beh, request, response, session) ==
  IF i > Len(table)
  THEN IF found_route
       THEN Triple(Str("405 Method Not Allowed"), 405, response, response,
                   session, << >>, FALSE)
       ELSE Triple(PyNone, NoStatus, response, response, session, << >>, FALSE)
  ELSE With(Match(table[i].compiled, request.path), LAMBDA match :
         IF match.ok
         THEN IF MethodAllowed(request, table[i].methods)
              THEN With(CallView(table[i].view, beh, request, response, session),
                        LAMBDA c : Normalize(i, match.groups, c))
              ELSE ScanRoutes(table, i + 1, TRUE, beh, request, response, session)
         ELSE ScanRoutes(table, i + 1, found_route, beh, request, response, session))

_handle_request(table, beh, request, response, session) ==
  ScanRoutes(table, 1, FALSE, beh, request, response, session)

(***************************************************************************)
(* wsgi_app: what is passed to start_response and what is returned.        *)
(***************************************************************************)
RedirectCodes == {301, 302, 303, 307, 308}

Header(key, value) == [key |-> key, value |-> value]

CookieHeaders(res) ==
  [i \in 1..Len(res.cookies) |-> Header("Set-Cookie", OutputString(res.cookies[i]))]

Emit(body0, status0, res) ==
  LET status == IF body0 = PyNone THEN 404 ELSE status0
      body == IF body0 = PyNone THEN Str("404 Not Found") ELSE body0
  IN  [status |-> status,
       status_line |-> ToString(status) \o " " \o _http_status_message(status),
       headers |-> <<Header("Content-Type", "text/html")>> \o res.headers
                   \o CookieHeaders(res),
       body |-> IF status \in RedirectCodes THEN Bytes("")
                ELSE IF body.t = "str" THEN Bytes(body.v) ELSE body]

NoOutput == [status |-> NoStatus, status_line |-> "", headers |-> << >>,
             body |-> PyNone]

(***************************************************************************)
(* TinyFrame.route(route_str, methods, name)(view) as a function of the    *)
(* application state.  name "" stands for a name that is None or empty,    *)
(* methods.none for a methods argument that is None.                       *)
(***************************************************************************)
NoName == ""
NoMethods == [none |-> TRUE, list |-> << >>]
MethodList(list) == [none |-> FALSE, list |-> list]

\* route() taking "no methods given" to allow both GET and POST
Route_GetAndPost(table, names, route_str, methods, name, view) ==
  LET route_name == IF name # NoName THEN name ELSE view.name
      compiled == compile_route(route_str)
      allowed_methods == IF methods.none \/ methods.list = << >>
                         THEN <<"GET", "POST">> ELSE methods.list
  IN  IF compiled.err
      THEN [raised |-> TRUE, routes |-> table, named_routes |-> names]
      ELSE [raised |-> FALSE,
            routes |-> Append(table, [compiled |-> compiled, view |-> view,
                                      methods |-> allowed_methods]),
            named_routes |-> (route_name :> [pattern |-> route_str,
                                             compiled |-> compiled,
                                             view |-> view]) @@ names]

Route(table, names, route_str, methods, name, view) ==
  LET route_name == IF name # NoName THEN name ELSE view.name
      compiled == compile_route(route_str)
      allowed_methods == IF methods.none \/ methods.list = << >>
                         THEN <<"GET">> ELSE methods.list
  IN  IF compiled.err
      THEN [raised |-> TRUE, routes |-> table, named_routes |-> names]
      ELSE [raised |-> FALSE,
            routes |-> Append(table, [compiled |-> compiled, view |-> view,
                                      methods |-> allowed_methods]),
            named_routes |-> (route_name :> [pattern |-> route_str,
                                             compiled |-> compiled,
                                             view |-> view]) @@ names]

(***************************************************************************)
(* TinyFrame.add_route(path, callback, methods, name).  An empty path and  *)
(* the callback NoCallback stand for arguments that are None (or falsy).   *)
(* The name argument is not used by the code.                              *)
(***************************************************************************)
NoCallback == [kind |-> "none", name |-> "", ops |-> EmptyDict]

AddRoute(table, names, path, callback, methods, name) ==
  LET allowed_methods == IF methods.none THEN <<"GET">> ELSE methods.list
  IN  IF path # << >> /\ callback # NoCallback
      THEN LET compiled == compile_route(path)
           IN  IF compiled.err
               THEN [raised |-> TRUE, routes |-> table, named_routes |-> names]
               ELSE [raised |-> FALSE,
                     routes |-> Append(table, [compiled |-> compiled,
                                               view |-> callback,
                                               methods |-> allowed_methods]),
                     named_routes |-> names]
      ELSE [raised |-> TRUE, routes |-> table, named_routes |-> names]

(***************************************************************************)
(* TinyFrame.url_for(route_name, **params).  A keyword argument value is   *)
(* text or a non-negative integer; str() gives its text.  The keyword      *)
(* arguments are a dict from placeholder name to value.                    *)
(***************************************************************************)
PyStr(s) == [t |-> "str", s |-> s, n |-> 0]
PyInt(n) == [t |-> "int", s |-> << >>, n |-> n]

RECURSIVE Digits(_)
Digits(n) ==
  LET d == <<"0", "1", "2", "3", "4", "5", "6", "7", "8", "9">>[(n % 10) + 1]
  IN  IF n < 10 THEN <<d>> ELSE Digits(n \div 10) \o <<d>>

str(value) == IF value.t = "str" THEN value.s ELSE Digits(value.n)

Pop(params, key) == [k \in DOMAIN params \ {key} |-> params[k]]

NoUrl == << >>
Raise(error) == [raised |-> TRUE, error |-> error, url |-> NoUrl]

\* re.sub(r'<(path:)?(\w+)>', repl, pattern): the text of the tokens from i on,
\* every placeholder replaced by the value popped from params
RECURSIVE Substitute(_, _, _)
Substitute(toks, i, params) ==
  IF i > Len(toks) THEN [raised |-> FALSE, url |-> << >>, params |-> params]
  ELSE IF toks[i].t = "lit"
  THEN With(Substitute(toks, i + 1, params),
            LAMBDA r : IF r.raised THEN r ELSE [r EXCEPT !.url = toks[i].c \o @])
  ELSE IF toks[i].c \notin DOMAIN params
  THEN [raised |-> TRUE, url |-> NoUrl, params |-> params]
  ELSE With(Substitute(toks, i + 1, Pop(params, toks[i].c)),
            LAMBDA r : IF r.raised THEN r
                       ELSE [r EXCEPT !.url = str(params[toks[i].c]) \o @])

\* the name urlencode is not bound in the module: evaluating it raises
urlencode(params) == Raise("NameError")

\* url_for answering an unknown name with an empty URL
url_for_Lenient(names, route_name, params) ==
  IF route_name \notin DOMAIN names
  THEN [raised |-> FALSE, error |-> "", url |-> NoUrl]
  ELSE LET sub == Substitute(Tokens(names[route_name].pattern, 1), 1, params)
       IN  IF sub.raised THEN Raise("ValueError")
           ELSE IF DOMAIN sub.params # {} THEN urlencode(sub.params)
           ELSE [raised |-> FALSE, error |-> "", url |-> sub.url]

url_for(names, route_name, params) ==
  IF route_name \notin DOMAIN names THEN Raise("ValueError")
  ELSE LET sub == Substitute(Tokens(names[route_name].pattern, 1), 1, params)
       IN  IF sub.raised THEN Raise("ValueError")
           ELSE IF DOMAIN sub.params # {} THEN urlencode(sub.params)
           ELSE [raised |-> FALSE, error |-> "", url |-> sub.url]

(***************************************************************************)
(* Inputs of the model.                                                    *)
(***************************************************************************)
RouteStrs == {<<"/", "a">>, <<"/", "<", "n", ">">>, <<"/", "<", "p", "a", "t", "h", ":", "p", ">">>}
Paths == {<<"/", "a">>, <<"/", "b">>, <<"/", "a", "/", "b">>}
MethodArgs == {NoMethods, MethodList(<<"GET", "POST">>), MethodList(<<"post">>)}
Methods == {"GET", "post", "PUT"}
Views == {FuncView("f")}
Names == {NoName}

\* identifiers uuid.uuid4() can return, and cookie values no uuid4() returns
Pool == {"u" \o ToString(i) : i \in 1..MaxSessions}
Forged == {"forged"}

Beh(hdr, ck, setst, shape, body, status, loc) ==
  [hdr |-> hdr, ck |-> ck, setst |-> setst, inc |-> (body = VisitsBody),
   shape |-> shape, body |-> body, status |-> status, loc |-> loc]

NoBeh == Beh(FALSE, FALSE, NoStatus, "raw", PyNone, NoStatus, "")

\* marks: which of set_header and set_cookie the handler calls, as <<hdr, ck>>
RawBehs(bodies, marks, sets) ==
  {Beh(m[1], m[2], s, "raw", b, NoStatus, "") : m \in marks, s \in sets, b \in bodies}

PairBehs(bodies, statuses, marks) ==
  {Beh(m[1], m[2], NoStatus, "pair", b, st, "") :
     m \in marks, b \in bodies, st \in statuses}

RespBehs(locs, statuses, marks) ==
  {Beh(m[1], m[2], NoStatus, "resp", PyNone, st, l) :
     m \in marks, l \in locs, st \in statuses}

Untouched == {<<FALSE, FALSE>>}

\* handler programs of the routing specification
Behs ==
  RawBehs({Str("hi"), PyNone}, Untouched, {NoStatus})
    \cup PairBehs({Str("hi")}, {201}, Untouched)
    \cup RespBehs({"/success"}, {302}, Untouched)

\* handler programs of the serving specification
ServeBehs ==
  RawBehs({Str("hi"), Bytes("hi"), PyNone}, BOOLEAN \X BOOLEAN, {NoStatus, 302})
    \cup RawBehs({VisitsBody}, Untouched, {NoStatus})
    \cup PairBehs({Str("hi"), PyNone}, {200, 301, 404},
                  {<<FALSE, FALSE>>, <<TRUE, TRUE>>})
    \cup RespBehs({"/success", "/x"}, {302, 308, 200},
                  {<<FALSE, FALSE>>, <<TRUE, TRUE>>})

(***************************************************************************)
(* State.  last records the latest operation and what it produced;         *)
(* wsgi_request is a request object whose body accessors are being called, *)
(* NoRequest when there is none; threads holds, for every server thread,   *)
(* its place in wsgi_app and its local objects, NoThreads when requests    *)
(* are served one at a time.                                               *)
(***************************************************************************)
NoRequest == [method |-> ""]
NoThreads == << >>

Init ==
  /\ routes = << >>
  /\ named_routes = EmptyDict
  /\ sessions = EmptyDict
  /\ serving = FALSE
  /\ last = [op |-> "none"]
  /\ wsgi_request = NoRequest
  /\ threads = NoThreads

\* route() keeping the pattern a name already refers to
route_FirstNameWins(route_str, methods, name, view) ==
  /\ ~serving
  /\ Len(routes) < MaxRoutes
  /\ LET r == Route(routes, named_routes, route_str, methods, name, view)
     IN  /\ routes' = r.routes
         /\ named_routes' = named_routes @@ r.named_routes
         /\ last' = [op |-> "route", raised |-> r.raised,
                     route_str |-> route_str, methods |-> methods,
                     name |-> name, view |-> view,
                     renamed |-> (IF name # NoName THEN name ELSE view.name)
                                   \in DOMAIN named_routes]
  /\ UNCHANGED <<sessions, serving, wsgi_request, threads>>

route(route_str, methods, name, view) ==
  /\ ~serving
  /\ Len(routes) < MaxRoutes
  /\ LET r == Route(routes, named_routes, route_str, methods, name, view)
     IN  /\ routes' = r.routes
         /\ named_routes' = r.named_routes
         /\ last' = [op |-> "route", raised |-> r.raised,
                     route_str |-> route_str, methods |-> methods,
                     name |-> name, view |-> view,
                     renamed |-> (IF name # NoName THEN name ELSE view.name)
                                   \in DOMAIN named_routes]
  /\ UNCHANGED <<sessions, serving, wsgi_request, threads>>

\* TinyFrame.run hands wsgi_app to the server: requests arrive from now on
run ==
  /\ ~serving
  /\ serving' = TRUE
  /\ last' = [op |-> "run"]
  /\ UNCHANGED <<routes, named_routes, sessions, wsgi_request, threads>>

Uuids(cookie) ==
  IF cookie # NoCookie /\ cookie \in DOMAIN sessions THEN {""}
  ELSE Pool \ DOMAIN sessions

Cookies == {NoCookie} \cup DOMAIN sessions \cup Forged

wsgi_app(method, path, cookie, beh, uuid) ==
  /\ LET req == WSGIRequest(method, path, cookie) IN
     \E gs \in {_get_session(sessions, req, NewResponse, uuid)} :
     \E hr \in {_handle_request(routes, beh, req, gs.res, gs.sessions[gs.sid])} :
       /\ DictGet(hr.session, "visits", 0) <= MaxVisits
       /\ sessions' = [gs.sessions EXCEPT ![gs.sid] = hr.session]
       /\ last' = [op |-> "wsgi_app", req |-> req,
                   ran |-> /\ hr.calls # << >>
                           /\ routes[hr.calls[1].route].view.kind = "func",
                   beh |-> IF /\ hr.calls # << >>
                              /\ routes[hr.calls[1].route].view.kind = "func"
                           THEN beh ELSE NoBeh,
                   sid |-> gs.sid, minted |-> gs.minted,
                   session |-> gs.sessions[gs.sid],
                   first |-> gs.res, response |-> hr.response,
                   calls |-> hr.calls, raised |-> hr.raised,
                   body |-> hr.body, status |-> hr.status,
                   out |-> IF hr.raised THEN NoOutput
                           ELSE Emit(hr.body, hr.status, hr.res)]
  /\ UNCHANGED <<routes, named_routes, serving, wsgi_request, threads>>

\* the server calls wsgi_app once per request, one request at a time
Request(paths, behs) ==
  /\ serving
  /\ last.op # "wsgi_app"
  /\ \E method \in Methods, path \in paths, cookie \in Cookies, beh \in behs :
       \E uuid \in Uuids(cookie) : wsgi_app(method, path, cookie, beh, uuid)

\* the server has written the response out and waits for the next request
finish_request ==
  /\ last.op = "wsgi_app"
  /\ last' = [op |-> "idle"]
  /\ UNCHANGED <<routes, named_routes, sessions, serving, wsgi_request, threads>>

Next ==
  \/ \E route_str \in RouteStrs, methods \in MethodArgs, name \in Names,
        view \in Views : route(route_str, methods, name, view)
  \/ run
  \/ Request(Paths, Behs)
  \/ finish_request

Spec == Init /\ [][Next]_vars

(***************************************************************************)
(* Serving specification: the application of the test suite                *)
(* (tests/test_tinyframe.py, setUp) and an application with a function     *)
(* view and class-based views behind routes that allow GET and POST, each  *)
(* already registered and running, under every handler program.            *)
(***************************************************************************)
NoApp == [routes |-> << >>, named_routes |-> EmptyDict]

Registered(app, route_str, methods, name, view) ==
  LET r == Route(app.routes, app.named_routes, route_str, methods, name, view)
  IN  [routes |-> r.routes, named_routes |-> r.named_routes]

MyView == ("get" :> "GET view") @@ ("post" :> "POST view")
OnlyGet == ("get" :> "GET view")

TestSuiteApp ==
  Registered(Registered(Registered(Registered(NoApp,
    <<"/", "s", "i", "m", "p", "l", "e">>, NoMethods, NoName, FuncView("simple_route")),
    <<"/", "h", "e", "l", "l", "o", "/", "<", "n", "a", "m", "e", ">">>, NoMethods, NoName, FuncView("hello")),
    <<"/", "o", "n", "l", "y", "g", "e", "t">>, MethodList(<<"GET">>), NoName, FuncView("only_get")),
    <<"/", "m", "y", "v", "i", "e", "w">>, NoMethods, NoName, ClassViewClass("MyView", MyView))

GateApp ==
  Registered(Registered(Registered(NoApp,
    <<"/">>, MethodList(<<"GET", "POST">>), NoName, FuncView("index")),
    <<"/", "v">>, MethodList(<<"GET", "POST">>), NoName, ClassViewClass("OnlyGet", OnlyGet)),
    <<"/", "w">>, MethodList(<<"GET", "POST">>), NoName, BoundDispatch("dispatch_request", OnlyGet))

ServeApps == {TestSuiteApp, GateApp}

ServePaths ==
  {<<"/", "s", "i", "m", "p", "l", "e">>, <<"/", "h", "e", "l", "l", "o", "/", "j", "o">>, <<"/", "o", "n", "l", "y", "g", "e", "t">>, <<"/", "m", "y", "v", "i", "e", "w">>, <<"/">>, <<"/", "v">>, <<"/", "w">>, <<"/", "n", "o", "n", "e", "x", "i", "s", "t", "e", "n", "t">>}

InitServe ==
  /\ \E app \in ServeApps :
       /\ routes = app.routes
       /\ named_routes = app.named_routes
  /\ sessions = EmptyDict
  /\ serving = TRUE
  /\ last = [op |-> "run"]
  /\ wsgi_request = NoRequest
  /\ threads = NoThreads

NextServe ==
  \/ Request(ServePaths, ServeBehs)
  \/ finish_request

SpecServe == InitServe /\ [][NextServe]_vars

(***************************************************************************)
(* Registration specification: routes registered by route() and by         *)
(* add_route(), with and without a methods list and a name, url_for() on   *)
(* the names.                                                              *)
(***************************************************************************)
RegStrs ==
  {<<"/", "f", "/", "<", "n", ">">>, <<"/", "f", "/", "<", "p", "a", "t", "h", ":", "p", ">">>,
   <<"/", "f", "/", "<", "n", ">", "/", "<", "n", ">">>}
RegPaths == {<<"/", "f", "/", "a">>, <<"/", "f", "/", "a", "/", "b">>, <<"/", "x">>}
RegMethodArgs == {NoMethods, MethodList(<< >>), MethodList(<<"get", "Post">>)}
RegNames == {NoName, "home"}

UrlNames == {"f", "home", "nope"}
UrlParams ==
  {EmptyDict,
   (<<"n">> :> PyStr(<<"j", "o">>)),
   (<<"n">> :> PyInt(42)),
   (<<"p">> :> PyStr(<<"a", "/", "b">>)),
   (<<"q">> :> PyStr(<<"1">>)),
   (<<"n">> :> PyStr(<<"j", "o">>)) @@ (<<"q">> :> PyStr(<<"1">>)),
   (<<"p">> :> PyStr(<<"a", "/", "b">>)) @@ (<<"n">> :> PyInt(7))}

add_route(path, callback, methods, name) ==
  /\ ~serving
  /\ Len(routes) < MaxRoutes
  /\ LET r == AddRoute(routes, named_routes, path, callback, methods, name)
     IN  /\ routes' = r.routes
         /\ named_routes' = r.named_routes
         /\ last' = [op |-> "add_route", raised |-> r.raised,
                     route_str |-> path, methods |-> methods, name |-> name,
                     view |-> callback]
  /\ UNCHANGED <<sessions, serving, wsgi_request, threads>>

\* url_for is called on the application at any time between requests; a
\* call changes nothing, so a call after a call is the same step again
UrlFor(route_name, params) ==
  /\ last.op \notin {"wsgi_app", "url_for"}
  /\ LET r == url_for(named_routes, route_name, params)
     IN  last' = [op |-> "url_for", route_name |-> route_name,
                  params |-> params, raised |-> r.raised, error |-> r.error,
                  url |-> r.url]
  /\ UNCHANGED <<routes, named_routes, sessions, serving, wsgi_request, threads>>

NextReg ==
  \/ \E route_str \in RegStrs, methods \in RegMethodArgs, name \in RegNames,
        view \in Views : route(route_str, methods, name, view)
  \/ \E path \in RegStrs \cup {<< >>}, methods \in RegMethodArgs,
        name \in RegNames, callback \in Views :
        add_route(path, callback, methods, name)
  \/ \E route_name \in UrlNames, params \in UrlParams : UrlFor(route_name, params)

SpecReg == Init /\ [][NextReg]_vars

(***************************************************************************)
(* What the latest request was and what the route list says about it.      *)
(***************************************************************************)
Served == last.op = "wsgi_app"
Answered == Served /\ ~last.raised

Matching == {i \in 1..Len(routes) : Match(routes[i].compiled, last.req.path).ok}
Allowing == {i \in Matching : MethodAllowed(last.req, routes[i].methods)}
Min(S) == CHOOSE x \in S : \A y \in S : x <= y

NotFound == last.out.status = 404 /\ last.out.body = Bytes("404 Not Found")
NotAllowed == last.out.status = 405 /\ last.out.body = Bytes("405 Method Not Allowed")

Emitted(header) == \E i \in 1..Len(last.out.headers) : last.out.headers[i] = header

\* C1: the response is 404 "404 Not Found" exactly when no registered route
\* accepts the request path, whatever the handler of a matching route returns.
C1_NotFoundIffNoPathMatch ==
  Answered => (NotFound <=> Matching = {})

\* the status and the body a handler program asks for
AskedStatus(beh, response) ==
  IF beh.shape = "raw" THEN response.status_code ELSE beh.status

\* C2: a path that some route accepts, requested with a method none of the
\* accepting routes allows, invokes no handler and yields 405 "405 Method
\* Not Allowed"; requested with an allowed method it yields the response of
\* the handler, status 200 unless the handler chose another.
C2_MethodGate ==
  Answered /\ Matching # {} =>
    IF Allowing = {}
    THEN last.calls = << >> /\ NotAllowed
    ELSE /\ Len(last.calls) = 1
         /\ last.ran => last.out.status = AskedStatus(last.beh, last.response)

\* C3: the handler invoked is that of the earliest registered route that
\* accepts the path and allows the method; it is invoked once and no other
\* handler is; an earlier route that accepts the path but not the method
\* neither blocks it nor makes the response a 405.
C3_FirstAllowedRouteInvoked ==
  Served =>
    IF Allowing = {} THEN last.calls = << >>
    ELSE /\ last.calls =
              <<[route |-> Min(Allowing),
                 kwargs |-> Match(routes[Min(Allowing)].compiled, last.req.path).groups]>>
         /\ ~NotAllowed

C3_Witness ==
  /\ Answered
  /\ Len(routes) = 2
  /\ Matching = {1, 2}
  /\ Allowing = {2}
  /\ last.calls # << >>
  /\ last.calls[1].route = 2
  /\ last.out.status = 200

SetCookie(morsel) == Header("Set-Cookie", OutputString(morsel))

\* C4: whatever shape the handler returns, every header and cookie set on
\* the per-request response before the handler returned is in the header
\* list passed to start_response.
C4_ResponseStateKept ==
  Answered /\ last.calls # << >> =>
    /\ \A i \in 1..Len(last.response.headers) : Emitted(last.response.headers[i])
    /\ \A i \in 1..Len(last.response.cookies) :
         Emitted(SetCookie(last.response.cookies[i]))

SessionCookie(id) == [key |-> "session_id", value |-> id, path |-> "/"]

Visits(session) == DictGet(session, "visits", 0)

\* C5: a request carrying a session_id issued earlier gets the mapping
\* stored under it, earlier writes included (a handler counting visits
\* answers one more than the stored count), creates no session and sets no
\* session cookie; an identifier minted for a request without a cookie
\* differs from every identifier issued before.
C5_SessionReuse ==
  [][ (last'.op = "wsgi_app" /\ last.op # "wsgi_app") =>
        /\ last'.req.cookie \in DOMAIN sessions =>
             /\ last'.sid = last'.req.cookie
             /\ ~last'.minted
             /\ last'.session = sessions[last'.req.cookie]
             /\ DOMAIN sessions' = DOMAIN sessions
             /\ last'.first.cookies = << >>
             /\ \A i \in 1..Len(last'.out.headers), id \in Pool :
                  last'.out.headers[i] # SetCookie(SessionCookie(id))
             /\ (last'.ran /\ last'.beh.inc) =>
                  /\ Visits(sessions'[last'.sid]) = Visits(sessions[last'.sid]) + 1
                  /\ last'.body =
                       Str("visits=" \o ToString(Visits(sessions[last'.sid]) + 1))
        /\ last'.req.cookie = NoCookie =>
             /\ last'.minted
             /\ last'.sid \notin DOMAIN sessions
    ]_vars

C5_Witness ==
  /\ Answered
  /\ ~last.minted
  /\ last.req.cookie = last.sid
  /\ last.out.body = Bytes("visits=2")
  /\ Cardinality(DOMAIN sessions) = 2

\* C6: without a session_id cookie, or with one that is not a key of the
\* store, _get_session does not adopt the value of the client: it mints an
\* identifier that is not in the store, stores an empty mapping under it,
\* sets it as cookie session_id with path "/" on the response it was given
\* and leaves every stored session as it was.
C6_SessionMinted ==
  [][ ( /\ last'.op = "wsgi_app"
        /\ last.op # "wsgi_app"
        /\ last'.req.cookie \notin DOMAIN sessions ) =>
        /\ last'.minted
        /\ last'.sid # last'.req.cookie
        /\ last'.sid \notin DOMAIN sessions
        /\ last'.session = EmptyDict
        /\ last'.first = set_cookie(NewResponse, "session_id", last'.sid, "/")
        /\ DOMAIN sessions' = DOMAIN sessions \cup {last'.sid}
        /\ \A id \in DOMAIN sessions : sessions'[id] = sessions[id]
    ]_vars

C6_Witness ==
  /\ Served
  /\ last.req.cookie \in Forged
  /\ last.minted
  /\ Cardinality(DOMAIN sessions) = 2
  /\ \E id \in DOMAIN sessions : id # last.sid /\ Visits(sessions[id]) > 0

\* C7: a handler that returns app.redirect(L) yields the status line
\* "302 Found", the header ("Location", L) and an empty body; with an
\* explicit status_code s the status is s and the Location header still L.
C7_Redirect ==
  Answered /\ last.ran /\ last.beh.shape = "resp" =>
    /\ last.out.status = last.beh.status
    /\ Emitted(Header("Location", last.beh.loc))
    /\ last.beh.status = 302 =>
         /\ last.out.status_line = "302 Found"
         /\ last.out.body = Bytes("")

C7_Witness ==
  /\ Answered
  /\ last.ran
  /\ last.beh.shape = "resp"
  /\ last.beh.loc = "/success"
  /\ last.out.status_line = "302 Found"
  /\ Emitted(Header("Location", "/success"))
  /\ last.out.body = Bytes("")

\* str.encode of a str body; any other body is passed on as it is
Encoded(body) == IF body.t = "str" THEN Bytes(body.v) ELSE body

\* the status and the body the handler asked for, by return shape
AskedBody(beh, body) == IF beh.shape = "resp" THEN Str("") ELSE body

\* C8: a redirect status (301, 302, 303, 307, 308) asked for by the handler
\* in any return shape is emitted with an empty body whatever body the
\* handler returned; under any other status the body emitted is the body
\* of the handler, encoded to bytes.
C8_RedirectBodySuppressed ==
  Answered /\ last.ran =>
    /\ last.out.status = AskedStatus(last.beh, last.response)
    /\ IF last.out.status \in RedirectCodes
       THEN last.out.body = Bytes("")
       ELSE last.out.body = Encoded(AskedBody(last.beh, last.body))

IsClassBased(view) == view.kind \in {"class", "bound"}

\* C9: a class-based handler that defines only get, on a route that allows
\* GET and POST, answers POST with 405 "405 Method Not Allowed".
C9_HandlerLevelGate ==
  \A i \in 1..Len(routes) :
    ( /\ Served
      /\ Allowing # {}
      /\ i = Min(Allowing)
      /\ IsClassBased(routes[i].view)
      /\ lower(last.req.method) \notin DOMAIN routes[i].view.ops ) =>
      Answered /\ NotAllowed

\* C10: a class-based view registered by route() without a methods
\* argument answers a request whose method names one of its operations
\* with status 200 and the return value of that operation.
C10_ClassViewAnswers ==
  \A i \in 1..Len(routes) :
    ( /\ Served
      /\ routes = TestSuiteApp.routes
      /\ Matching = {i}
      /\ routes[i].view.kind = "class"
      /\ lower(last.req.method) \in DOMAIN routes[i].view.ops ) =>
      /\ Answered
      /\ last.out.status = 200
      /\ last.out.body = Bytes(routes[i].view.ops[lower(last.req.method)])

(***************************************************************************)
(* What the latest registration appended, and what an application whose    *)
(* only route is that entry does with a request.                           *)
(***************************************************************************)
Registering == last.op \in {"route", "add_route"} /\ ~last.raised
NewEntry == routes[Len(routes)]

Alone(entry, method, path) ==
  LET request == WSGIRequest(method, path, NoCookie)
      hr == _handle_request(<<entry>>, Beh(FALSE, FALSE, NoStatus, "raw", Str("hi"), NoStatus, ""),
                            request, NewResponse, EmptyDict)
  IN  [calls |-> hr.calls, out |-> Emit(hr.body, hr.status, hr.res)]

Dispatched(a, entry, path) ==
  a.calls = <<[route |-> 1, kwargs |-> Match(entry.compiled, path).groups]>>

C12_SameRegistration ==
  [][last'.op = "add_route" =>
       LET r == Route(routes, named_routes, last'.route_str, last'.methods,
                      last'.name, last'.view)
       IN  /\ last'.raised = r.raised
           /\ routes' = r.routes
           /\ named_routes' = r.named_routes]_vars

(***************************************************************************)
(* What the latest url_for call was asked: the placeholders of the named   *)
(* pattern, the pattern text with each placeholder filled in, and the      *)
(* keyword arguments no placeholder takes.                                 *)
(***************************************************************************)
Called == last.op = "url_for"
Known == last.route_name \in DOMAIN named_routes
Pattern == Tokens(named_routes[last.route_name].pattern, 1)
Placeholders == {Pattern[i].c : i \in {j \in 1..Len(Pattern) : Pattern[j].t # "lit"}}
Leftover == DOMAIN last.params \ Placeholders

RECURSIVE Filled(_, _, _)
Filled(toks, i, params) ==
  IF i > Len(toks) THEN << >>
  ELSE (IF toks[i].t = "lit" THEN toks[i].c ELSE str(params[toks[i].c]))
         \o Filled(toks, i + 1, params)

UrlForAnswer ==
  Called =>
    IF ~Known THEN last.raised
    ELSE IF ~(Placeholders \subseteq DOMAIN last.params) THEN last.raised
    ELSE Leftover = {} =>
           ~last.raised /\ last.url = Filled(Pattern, 1, last.params)

\* C13: url_for on a registered name whose placeholders all have a value
\* returns the pattern with every placeholder replaced by the text of its
\* value and the literal text unchanged; on an unregistered name, or with
\* a placeholder without value, it raises instead of returning; the route
\* list and the name mapping are the same before and after the call.
C13_UrlForSubstitutes ==
  [][last'.op = "url_for" =>
       UrlForAnswer' /\ UNCHANGED <<routes, named_routes>>]_vars

C13_Witness ==
  /\ Called /\ Known /\ ~last.raised
  /\ last.params = (<<"n">> :> PyInt(42))
  /\ last.url = <<"/", "f", "/", "4", "2">>

\* urllib.parse.quote_plus of the characters of the model
RECURSIVE QuotePlus(_)
QuotePlus(text) ==
  IF text = << >> THEN << >>
  ELSE (IF Head(text) = "/" THEN <<"%", "2", "F">> ELSE <<Head(text)>>)
         \o QuotePlus(Tail(text))

Orders(S) == {o \in [1..Cardinality(S) -> S] : \A k \in S : \E i \in DOMAIN o : o[i] = k}

RECURSIVE QueryString(_, _, _)
QueryString(order, i, params) ==
  IF i > Len(order) THEN << >>
  ELSE (IF i > 1 THEN <<"&">> ELSE << >>)
         \o QuotePlus(order[i]) \o <<"=">> \o QuotePlus(str(params[order[i]]))
         \o QueryString(order, i + 1, params)

\* C14: url_for with keyword arguments that no placeholder takes returns
\* the substituted path followed by "?" and the URL-encoded leftover
\* arguments; with every argument taken by a placeholder it returns the
\* substituted path with no "?".
C14_LeftoverQuery ==
  Called /\ Known /\ Placeholders \subseteq DOMAIN last.params =>
    /\ ~last.raised
    /\ IF Leftover = {} THEN last.url = Filled(Pattern, 1, last.params)
       ELSE \E order \in Orders(Leftover) :
              last.url = Filled(Pattern, 1, last.params) \o <<"?">>
                           \o QueryString(order, 1, last.params)

(***************************************************************************)
(* The body accessors of WSGIRequest.  The environ carries REQUEST_METHOD, *)
(* QUERY_STRING, an optional CONTENT_LENGTH and the stream wsgi.input; the *)
(* stream counts the read() calls made on it.  Text is ASCII without "%",  *)
(* so decoding UTF-8 and percent-unquoting leave it as it is.              *)
(***************************************************************************)
IsDigit(c) == c \in {"0", "1", "2", "3", "4", "5", "6", "7", "8", "9"}
DigitValue(c) == CHOOSE d \in 0..9 : Digits(d) = <<c>>

RECURSIVE Decimal(_)
Decimal(text) ==
  IF text = << >> THEN 0
  ELSE Decimal(SubSeq(text, 1, Len(text) - 1)) * 10 + DigitValue(text[Len(text)])

\* int(text): an optional sign and decimal digits, ValueError otherwise
int(text) ==
  LET neg == text # << >> /\ Head(text) = "-"
      digits == IF neg THEN Tail(text) ELSE text
  IN  IF digits = << >> \/ \E i \in 1..Len(digits) : ~IsDigit(digits[i])
      THEN [raised |-> TRUE, n |-> 0]
      ELSE [raised |-> FALSE, n |-> IF neg THEN 0 - Decimal(digits) ELSE Decimal(digits)]

NoLength == [present |-> FALSE, text |-> << >>]
Length(text) == [present |-> TRUE, text |-> text]

Stream(data) == [data |-> data, pos |-> 0, reads |-> 0]

\* stream.read(size): up to size characters from the position, all that is
\* left when size is negative
read(stream, size) ==
  LET left == Len(stream.data) - stream.pos
      k == IF size < 0 \/ size > left THEN left ELSE size
  IN  [data |-> SubSeq(stream.data, stream.pos + 1, stream.pos + k),
       stream |-> [stream EXCEPT !.pos = @ + k, !.reads = @ + 1]]

IndexOf(text, c) ==
  IF \E i \in 1..Len(text) : text[i] = c
  THEN Min({i \in 1..Len(text) : text[i] = c}) ELSE 0

RECURSIVE Split(_, _)
Split(text, sep) ==
  LET i == IndexOf(text, sep)
  IN  IF i = 0 THEN <<text>>
      ELSE <<SubSeq(text, 1, i - 1)>> \o Split(SubSeq(text, i + 1, Len(text)), sep)

\* unquote(s.replace('+', ' '))
Unquote(text) == [i \in 1..Len(text) |-> IF text[i] = "+" THEN " " ELSE text[i]]

\* parse_qsl: the name=value fields with a non-empty value, in order
RECURSIVE Pairs(_, _)
Pairs(fields, i) ==
  IF i > Len(fields) THEN << >>
  ELSE LET f == fields[i]
           e == IndexOf(f, "=")
       IN  (IF e = 0 \/ e = Len(f) THEN << >>
            ELSE <<[name |-> Unquote(SubSeq(f, 1, e - 1)),
                    value |-> Unquote(SubSeq(f, e + 1, Len(f)))]>>)
             \o Pairs(fields, i + 1)

\* parse_qs: every name with the list of its values, in order
parse_qs(text) ==
  LET ps == Pairs(Split(text, "&"), 1)
      ValuesOf(n) == LET sel == SelectSeq(ps, LAMBDA q : q.name = n)
                     IN  [i \in 1..Len(sel) |-> sel[i].value]
  IN  [n \in {ps[i].name : i \in 1..Len(ps)} |-> ValuesOf(n)]

\* a dict value that is one string, and one that is a list of strings
Scalar(value) == [list |-> FALSE, v |-> <<value>>]
List(values) == [list |-> TRUE, v |-> values]

Unset == [set |-> FALSE, dict |-> EmptyDict]

\* WSGIRequest.__init__
WSGIRequestOf(environ) ==
  [method |-> environ.REQUEST_METHOD,
   query_params |-> LET d == parse_qs(environ.QUERY_STRING)
                    IN  [n \in DOMAIN d |-> List(d[n])],
   CONTENT_LENGTH |-> environ.CONTENT_LENGTH,
   input |-> environ.input,
   _form |-> Unset]

ContentLength(self) ==
  IF ~self.CONTENT_LENGTH.present THEN 0
  ELSE IF int(self.CONTENT_LENGTH.text).raised THEN 0
  ELSE int(self.CONTENT_LENGTH.text).n

get_post_data(self) ==
  LET r == read(self.input, ContentLength(self))
  IN  [data |-> r.data, self |-> [self EXCEPT !.input = r.stream]]

form(self) ==
  IF self._form.set THEN [form |-> self._form.dict, self |-> self]
  ELSE IF upper(self.method) = "POST"
  THEN LET r == read(self.input, ContentLength(self))
           parsed == parse_qs(r.data)
           collapsed == [n \in DOMAIN parsed |->
                           IF Len(parsed[n]) = 1 THEN Scalar(parsed[n][1])
                           ELSE List(parsed[n])]
       IN  [form |-> collapsed,
            self |-> [self EXCEPT !.input = r.stream,
                                  !._form = [set |-> TRUE, dict |-> collapsed]]]
  ELSE [form |-> EmptyDict,
        self |-> [self EXCEPT !._form = [set |-> TRUE, dict |-> EmptyDict]]]

(***************************************************************************)
(* Body specification: a request object built from an environ, and its     *)
(* accessors called in any order, at most MaxAccess times.                 *)
(***************************************************************************)
MaxAccess == 3

Texts == {<<"a", "=", "1">>, <<"a", "=", "1", "&", "a", "=", "2">>, <<"a", "=", "+", "&", "b", "=", "&", "c">>}
BodyMethods == {"POST", "post", "GET"}
Lengths(body) ==
  {NoLength, Length(Digits(Len(body))), Length(<<"3">>), Length(<<"x">>),
   Length(<<"-", "1">>)}

InitBody ==
  /\ routes = << >>
  /\ named_routes = EmptyDict
  /\ sessions = EmptyDict
  /\ serving = TRUE
  /\ \E method \in BodyMethods, query \in Texts, body \in Texts :
       \E length \in Lengths(body) :
         wsgi_request = WSGIRequestOf([REQUEST_METHOD |-> method,
                                       QUERY_STRING |-> query,
                                       CONTENT_LENGTH |-> length,
                                       input |-> Stream(body)])
  /\ last = [op |-> "WSGIRequest", calls |-> 0, data |-> << >>,
             form |-> EmptyDict, forms |-> << >>]
  /\ threads = NoThreads

GetPostData ==
  /\ last.calls < MaxAccess
  /\ LET r == get_post_data(wsgi_request)
     IN  /\ wsgi_request' = r.self
         /\ last' = [last EXCEPT !.op = "get_post_data", !.calls = @ + 1,
                                 !.data = r.data]
  /\ UNCHANGED <<routes, named_routes, sessions, serving, threads>>

Form ==
  /\ last.calls < MaxAccess
  /\ LET r == form(wsgi_request)
     IN  /\ wsgi_request' = r.self
         /\ last' = [last EXCEPT !.op = "form", !.calls = @ + 1,
                                 !.form = r.form, !.forms = Append(@, r.form)]
  /\ UNCHANGED <<routes, named_routes, sessions, serving, threads>>

NextBody == GetPostData \/ Form

SpecBody == InitBody /\ [][NextBody]_vars

\* C15: whatever accessors of a request are called, in whatever order and
\* however often, wsgi.input is read at most once, and every form result
\* after the first is the mapping the first one was.
C15_StreamReadOnce ==
  /\ wsgi_request.input.reads <= 1
  /\ \A i \in 1..Len(last.forms) : last.forms[i] = last.forms[1]

\* C16: for one URL-encoded text given as the query string and as the body
\* of a POST request, query_params and form have the same keys with the
\* same values, a single value as a string and several as a list in order.
C16_SameCollapsing ==
  LET SameText ==
        \E text \in Texts :
          /\ wsgi_request.query_params =
               [n \in DOMAIN parse_qs(text) |-> List(parse_qs(text)[n])]
          /\ wsgi_request.input.data = text
          /\ wsgi_request.CONTENT_LENGTH = Length(Digits(Len(text)))
  IN  (/\ last.op = "form" /\ last.calls = 1
       /\ upper(wsgi_request.method) = "POST"
       /\ SameText)
      => (/\ wsgi_request.query_params = last.form
          /\ \A n \in DOMAIN last.form :
               last.form[n].list <=> Len(last.form[n].v) > 1)

(***************************************************************************)
(* Pattern specification: compile_route applied to a pattern, and the      *)
(* compiled pattern matched against the pattern text with its placeholders *)
(* replaced by values without "/" of at most MaxLen characters.            *)
(***************************************************************************)
MaxLen == 2

TripPatterns ==
  {<<"/", "<", "a", ">">>, <<"/", "<", "a", ">", "/", "<", "b", ">">>, <<"/", "x", "<", "a", ">", "y", "/", "<", "b", ">">>, <<"/", "<", "p", "a", "t", "h", ":", "a", ">", "/", "<", "b", ">">>, <<"/", "<", "a", ">", "/", "k", "/", "<", "p", "a", "t", "h", ":", "b", ">">>,
   <<"/", "<", "a", ">", "-", "<", "b", ">">>, <<"/", "<", "a", ">", "<", "b", ">">>}

ValueChars == {"x", "y", "-"}
TripValues == UNION {[1..n -> ValueChars] : n \in 1..MaxLen}

RoundTrip(pattern, values) ==
  /\ last.op = "none"
  /\ LET compiled == compile_route(pattern)
         path == Substitute(compiled.toks, 1,
                            [n \in DOMAIN values |-> PyStr(values[n])]).url
     IN  last' = [op |-> "round_trip", pattern |-> pattern, values |-> values,
                  path |-> path, match |-> Match(compiled, path)]
  /\ UNCHANGED <<routes, named_routes, sessions, serving, wsgi_request, threads>>

NextTrip ==
  \E pattern \in TripPatterns :
    \E values \in [GroupNames(Tokens(pattern, 1)) -> TripValues] :
      RoundTrip(pattern, values)

SpecTrip == Init /\ [][NextTrip]_vars

Tripped == last.op = "round_trip"
Recovered == last.match.ok /\ last.match.groups = last.values

\* no two placeholders of the pattern without a "/" between them
OnePerSegment(toks) ==
  \A i, j \in 1..Len(toks) :
    i < j /\ toks[i].t # "lit" /\ toks[j].t # "lit" =>
      \E k \in (i + 1)..(j - 1) : toks[k] = Lit("/")

Kinds(i) == {routes[i].compiled.toks[k].t : k \in 1..Len(routes[i].compiled.toks)}
PlainRoutes == {i \in 1..Len(routes) : "seg" \in Kinds(i)}
PathRoutes == {i \in 1..Len(routes) : "path" \in Kinds(i)}
Captured(i) == Match(routes[i].compiled, last.req.path).groups
HasSlash(text) == \E k \in 1..Len(text) : text[k] = "/"

\* C18: a <path:name> placeholder captures a value that contains "/"
\* ("/<path:p>" matches "/a/b" with p = "a/b"); a plain <name> placeholder
\* never does: the route does not match such a path, and the request goes
\* to the next route that matches, or gets 404 when there is none.
C18_PathCapturesSlash ==
  Served =>
    /\ \A i \in PlainRoutes \cap Matching :
         \A n \in DOMAIN Captured(i) : ~HasSlash(Captured(i)[n])
    /\ last.req.path = <<"/", "a", "/", "b">> =>
         /\ PlainRoutes \cap Matching = {}
         /\ PathRoutes \subseteq Matching
         /\ \A i \in PathRoutes : Captured(i) = (<<"p">> :> <<"a", "/", "b">>)
         /\ IF Allowing = {} THEN last.calls = << >>
            ELSE last.calls = <<[route |-> Min(Allowing),
                                 kwargs |-> (<<"p">> :> <<"a", "/", "b">>)]>>
         /\ PathRoutes = {} => Answered /\ NotFound

C18_Witness ==
  /\ Answered
  /\ last.req.path = <<"/", "a", "/", "b">>
  /\ PlainRoutes = {1}
  /\ PathRoutes = {2}
  /\ last.calls = <<[route |-> 2, kwargs |-> (<<"p">> :> <<"a", "/", "b">>)]>>
  /\ last.out.status = 200

\* the standard reason phrases of the status codes the core emits itself
\* or treats as redirects
StandardPhrase ==
  (200 :> "OK") @@ (301 :> "Moved Permanently") @@ (302 :> "Found")
    @@ (303 :> "See Other") @@ (307 :> "Temporary Redirect")
    @@ (308 :> "Permanent Redirect") @@ (404 :> "Not Found")
    @@ (405 :> "Method Not Allowed")

\* C19: the status line of a response carries the standard reason phrase of
\* its status code for 200, 404, 405 and for every redirect code whose body
\* is suppressed (301, 302, 303, 307, 308); "Unknown Status Code" appears
\* only with a code that is not a standard one.
C19_StandardPhrases ==
  Answered /\ last.out.status \in DOMAIN StandardPhrase =>
    /\ last.out.status_line =
         ToString(last.out.status) \o " " \o StandardPhrase[last.out.status]
    /\ _http_status_message(last.out.status) # "Unknown Status Code"

\* the status a handler result asks for, by the shape of the result
ResultStatus ==
  CASE last.beh.shape = "pair" -> last.beh.status
    [] last.beh.shape = "raw" -> last.response.status_code
    [] last.beh.shape = "resp" -> last.beh.status

NameList(route_str) ==
  LET toks == Tokens(route_str, 1)
      groups == SelectSeq(toks, LAMBDA tk : tk.t # "lit")
  IN  [i \in 1..Len(groups) |-> groups[i].c]

Duplicated(route_str) ==
  \E i, j \in 1..Len(NameList(route_str)) :
    i < j /\ NameList(route_str)[i] = NameList(route_str)[j]

\* C21: registering a route string in which one parameter name occurs in
\* two placeholders raises an error to the caller of the registration and
\* leaves the route list and the name mapping as they were before the call.
C21_DuplicateRejected ==
  [][last'.op \in {"route", "add_route"} /\ Duplicated(last'.route_str) =>
       last'.raised /\ UNCHANGED <<routes, named_routes>>]_vars

C21_Witness ==
  /\ last.op = "route"
  /\ Duplicated(last.route_str)
  /\ last.raised
  /\ Len(routes) = 1
  /\ DOMAIN named_routes = {"home"}

\* the name a route() call registers under
RouteName == IF last.name # NoName THEN last.name ELSE last.view.name

\* C22: registering a second route under a name already in use makes the
\* name mapping, and so url_for, refer to the pattern of the second route
\* only; the route list keeps both entries in registration order, each
\* matching the paths it matched before; no step removes or reorders an
\* entry of the route list.
C22_NameOverwritten ==
  [][/\ \/ routes' = routes
        \/ /\ Len(routes') >= Len(routes)
           /\ SubSeq(routes', 1, Len(routes)) = routes
           /\ \A i \in 1..Len(routes), path \in RegPaths :
                Match(routes'[i].compiled, path) = Match(routes[i].compiled, path)
     /\ (last'.op = "route" /\ ~last'.raised /\ RouteName' \in DOMAIN named_routes) =>
          /\ named_routes'[RouteName'].pattern = last'.route_str
          /\ DOMAIN named_routes' = DOMAIN named_routes
          /\ \A n \in DOMAIN named_routes \ {RouteName'} :
               named_routes'[n] = named_routes[n]
          /\ Len(routes') = Len(routes) + 1
          /\ routes'[Len(routes')].compiled = compile_route(last'.route_str)
          /\ \E i \in 1..Len(routes) :
               routes'[i].compiled = named_routes[RouteName'].compiled
          /\ \A params \in UrlParams :
               url_for(named_routes', RouteName', params) =
                 url_for((RouteName' :> [pattern |-> last'.route_str]), RouteName', params)
    ]_vars

C22_Witness ==
  /\ last.op = "route" /\ ~last.raised /\ last.renamed
  /\ Len(routes) = 2
  /\ routes[1].compiled # routes[2].compiled
  /\ named_routes[RouteName].pattern = last.route_str
  /\ named_routes[RouteName].compiled = routes[2].compiled
  /\ Match(routes[1].compiled, <<"/", "f", "/", "a">>).ok
  /\ ~Match(routes[1].compiled, <<"/", "f", "/", "a", "/", "b">>).ok
  /\ Match(routes[2].compiled, <<"/", "f", "/", "a", "/", "b">>).ok

(***************************************************************************)
(* Concurrent specification: wsgi_app run by several server threads at     *)
(* once (the threaded servers of run), one request per thread, on the      *)
(* application of the test suite.  A thread switch can fall between any    *)
(* two of the steps below; each step is one dict operation or works on     *)
(* objects of the thread alone.  uuid.uuid4() returns an identifier that   *)
(* no call has returned before.  The handler counts the visits of the      *)
(* session it is given.                                                    *)
(***************************************************************************)
MaxThreads == 2

Threads == 1..MaxThreads
Idle == [pc |-> "idle", cookie |-> NoCookie, sid |-> "", res |-> NewResponse,
         status |-> NoStatus, overlap |-> FALSE]

IdPool == {"u" \o ToString(i) : i \in 1..MaxThreads}
OldStores == {EmptyDict, ("u0" :> ("visits" :> 1))}
CountVisits == Beh(FALSE, FALSE, NoStatus, "raw", VisitsBody, NoStatus, "")

\* identifiers uuid4() has returned so far
Taken == DOMAIN sessions \cup {threads[t].sid : t \in Threads}

\* self.sessions[session_id] = session, session being a new empty dict;
\* only the dict of the thread's own session identifier is written
StoreSession_Alone(store, session_id) == (session_id :> EmptyDict)

StoreSession(store, session_id) == (session_id :> EmptyDict) @@ store

InitConc ==
  /\ routes = TestSuiteApp.routes
  /\ named_routes = TestSuiteApp.named_routes
  /\ \E store \in OldStores :
       /\ sessions = store
       /\ last = [op |-> "serve_forever", before |-> store]
  /\ serving = TRUE
  /\ wsgi_request = NoRequest
  /\ threads = [t \in Threads |-> Idle]

\* wsgi_app is entered: req = WSGIRequest(environ), res = WSGIResponse()
Arrive(t, cookie) ==
  /\ threads[t].pc = "idle"
  /\ threads' = [threads EXCEPT ![t] =
                   [@ EXCEPT !.pc = "lookup", !.cookie = cookie,
                             !.overlap = \E u \in Threads \ {t} :
                                           threads[u].pc \notin {"idle", "done"}]]
  /\ UNCHANGED <<routes, named_routes, sessions, serving, last, wsgi_request>>

\* if session_id and session_id in self.sessions
Lookup(t) ==
  /\ threads[t].pc = "lookup"
  /\ threads' = [threads EXCEPT ![t] =
                   IF @.cookie # NoCookie /\ @.cookie \in DOMAIN sessions
                   THEN [@ EXCEPT !.pc = "handle", !.sid = threads[t].cookie]
                   ELSE [@ EXCEPT !.pc = "uuid4"]]
  /\ UNCHANGED <<routes, named_routes, sessions, serving, last, wsgi_request>>

\* session_id = str(uuid.uuid4())
NewId(t) ==
  /\ threads[t].pc = "uuid4"
  /\ \E id \in IdPool \ Taken :
       threads' = [threads EXCEPT ![t] = [@ EXCEPT !.pc = "store", !.sid = id]]
  /\ UNCHANGED <<routes, named_routes, sessions, serving, last, wsgi_request>>

Store(t) ==
  /\ threads[t].pc = "store"
  /\ sessions' = StoreSession(sessions, threads[t].sid)
  /\ threads' = [threads EXCEPT ![t] = [@ EXCEPT !.pc = "set_cookie"]]
  /\ UNCHANGED <<routes, named_routes, serving, last, wsgi_request>>

\* response.set_cookie("session_id", session_id)
Cookie(t) ==
  /\ threads[t].pc = "set_cookie"
  /\ threads' = [threads EXCEPT ![t] =
                   [@ EXCEPT !.pc = "handle",
                             !.res = set_cookie(@, "session_id", threads[t].sid, "/")]]
  /\ UNCHANGED <<routes, named_routes, sessions, serving, last, wsgi_request>>

\* body, status, res = self._handle_request(req, res), and the response
Handle(t) ==
  /\ threads[t].pc = "handle"
  /\ \E hr \in {_handle_request(routes, CountVisits,
                                WSGIRequest("GET", <<"/", "s", "i", "m", "p", "l", "e">>, threads[t].cookie),
                                threads[t].res, sessions[threads[t].sid])} :
       /\ sessions' = [sessions EXCEPT ![threads[t].sid] = hr.session]
       /\ threads' = [threads EXCEPT ![t] =
                        [@ EXCEPT !.pc = "done", !.res = hr.res,
                                  !.status = Emit(hr.body, hr.status, hr.res).status]]
  /\ UNCHANGED <<routes, named_routes, serving, last, wsgi_request>>

NextConc ==
  \E t \in Threads :
    \/ \E cookie \in {NoCookie} \cup Forged \cup DOMAIN last.before : Arrive(t, cookie)
    \/ Lookup(t)
    \/ NewId(t)
    \/ Store(t)
    \/ Cookie(t)
    \/ Handle(t)

SpecConc == InitConc /\ [][NextConc]_vars

\* the threads that have answered a request that came without a cookie of
\* an existing session
Done == {t \in Threads : threads[t].pc = "done"}
NewClients == {t \in Done : threads[t].cookie \notin DOMAIN last.before}

\* C23: however the steps of concurrently served requests without a valid
\* session cookie interleave, each request ends with a session identifier
\* of its own, different from that of every other request, stored with a
\* mapping of its own; every session that existed before is still stored,
\* unreplaced; and the route table is as it was.
C23_ConcurrentSessions ==
  /\ \A t \in NewClients :
       /\ threads[t].sid \in DOMAIN sessions \ DOMAIN last.before
       /\ sessions[threads[t].sid] = ("visits" :> 1)
       /\ \E i \in 1..Len(threads[t].res.cookies) :
            /\ threads[t].res.cookies[i].key = "session_id"
            /\ threads[t].res.cookies[i].value = threads[t].sid
       /\ \A u \in NewClients \ {t} : threads[u].sid # threads[t].sid
  /\ \A id \in DOMAIN last.before :
       /\ id \in DOMAIN sessions
       /\ sessions[id]["visits"] >= last.before[id]["visits"]
       /\ (\A t \in Threads : threads[t].cookie # id) => sessions[id] = last.before[id]
  /\ routes = TestSuiteApp.routes
  /\ named_routes = TestSuiteApp.named_routes

C23_Witness ==
  /\ NewClients = Threads
  /\ \E t \in Threads : threads[t].overlap
  /\ DOMAIN last.before = {"u0"}
  /\ Cardinality(DOMAIN sessions) = MaxThreads + 1
  /\ \A t \in Threads : threads[t].status = 200

====
